---- MODULE Spec2Model ----
(***************************************************************************)
(* The scan orchestration of the document scanner: the POST /scan handler  *)
(* (app.py scan_document), the background pipeline it starts (perform_scan *)
(* with scanner.capture_and_process_image and ocr_processor.ocr_image) and *)
(* the /last_result reader.                                                *)
(*                                                                         *)
(* Python values are tagged tuples, so that None, "" and a text are three  *)
(* different values: None is <<"None">>, a str is <<"str", pieces>> where  *)
(* pieces is the sequence of its parts (single characters for recognised   *)
(* text, so that str.strip() is computed; the literal parts of an f-string *)
(* for messages), a float is <<"float", n>>.                               *)
(***************************************************************************)
EXTENDS Naturals, Sequences, FiniteSets, TLC

\* Number of POST /scan requests a behaviour holds.
NumRequests == 2

\* scanner.py:53, range(5): the frames read and discarded before the capture.
WarmupFrames == 5

\* app.py:16
CAMERA_INDEX == 0

\* app.py:16
CAMERA_RESOLUTION == <<1920, 1080>>

Requests == 1..NumRequests

----------------------------------------------------------------------------
\* Python values

None == <<"None">>

Str(pieces) == <<"str", pieces>>

Float(n) == <<"float", n>>

\* Python truthiness of None or a str: `if capture_error:`, `text or ...`.
Truthy(v) == v # None /\ v # Str(<<>>)

\* The characters str.strip() removes.
Whitespace == {" ", "\n", "\t"}

RECURSIVE LStrip(_)
LStrip(s) == IF s # <<>> /\ Head(s) \in Whitespace THEN LStrip(Tail(s)) ELSE s

RECURSIVE RStrip(_)
RStrip(s) ==
    IF s # <<>> /\ s[Len(s)] \in Whitespace
    THEN RStrip(SubSeq(s, 1, Len(s) - 1))
    ELSE s

\* str.strip() on the characters of a text.
Strip(s) == RStrip(LStrip(s))

\* What pytesseract.image_to_string may return for the documents considered:
\* nothing, white space only, a text with white space around it.
RawTexts == { <<>>, <<" ", "\n">>, <<" ", "H", "i", "\n">> }

\* app.py:121
NoTextDetected == Str(<<"No text detected">>)

\* app.py:28-33
InitialResult ==
    [text |-> Str(<<>>), timestamp |-> None, success |-> FALSE, error |-> None]

\* app.py:73
Rejected ==
    [status |-> 429, success |-> FALSE, text |-> "Scan already in progress"]

\* app.py:142
Accepted ==
    [status |-> 200, success |-> TRUE, text |-> "Scan started successfully"]

\* The handler raised (threading.Thread.start failed): the server's 500.
ServerError == [status |-> 500, success |-> FALSE, text |-> "Internal Server Error"]

NoResponse == [status |-> 0, success |-> FALSE, text |-> ""]

\* scanner.py:6-10: the names the scanner module binds at import.
ScannerImports == {"cv2", "np", "os", "tempfile", "datetime"}

----------------------------------------------------------------------------
\* What the camera, the disk and the recognition engine do during one job.
\*   opened    cap.isOpened()                               scanner.py:43
\*   reads     how many cap.read() calls deliver a frame    scanner.py:54,60
\*   stalls    the first cap.read() that delivers no frame
\*             never returns (instead of returning False)   scanner.py:54,60
\*   saved     cv2.imwrite returns True                     scanner.py:74
\*   releases  cap.release() returns (does not raise)       scanner.py:85
\*   readable  Image.open accepts the file                  ocr_processor.py:25
\*   engine    "ok", "missing" (TesseractNotFoundError) or
\*             "error" (TesseractError)                     ocr_processor.py:32
\*   raw       the text image_to_string returns             ocr_processor.py:32
\*   removable os.remove succeeds                           app.py:108
\* A field that the job cannot observe (the steps after a failing one never
\* run) is kept at one value.
AllReads == WarmupFrames + 1

Observable(w) ==
    /\ (~w.opened => w.reads = 0)
    /\ (w.stalls => w.opened /\ w.reads < AllReads /\ w.releases)
    /\ (w.reads < AllReads => ~w.saved)
    /\ (~(w.saved /\ w.releases) => w.readable /\ w.removable)
    /\ (~(w.saved /\ w.releases /\ w.readable) => w.engine = "ok")
    /\ (~(w.saved /\ w.releases /\ w.readable /\ w.engine = "ok") => w.raw = <<>>)

Worlds ==
    { w \in [opened : BOOLEAN, reads : 0..AllReads, stalls : BOOLEAN,
             saved : BOOLEAN,
             releases : BOOLEAN, readable : BOOLEAN,
             engine : {"ok", "missing", "error"}, raw : RawTexts,
             removable : BOOLEAN] : Observable(w) }

\* The devices before any job has met them.
Benign ==
    [opened |-> TRUE, reads |-> AllReads, stalls |-> FALSE, saved |-> TRUE,
     releases |-> TRUE,
     readable |-> TRUE, engine |-> "ok", raw |-> <<>>, removable |-> TRUE]

\* The handler of GET /status when no request is being served: cap is the
\* local of check_camera_available (scanner.py:14), available what it
\* returned, raised whether it raised instead.
NoStatusCall ==
    [pc |-> "idle", cap |-> "None", available |-> FALSE, raised |-> FALSE]

\* An image: the shape of its array, what it shows, and the OpenCV
\* operations applied to it since it was read.
NoImage == [shape |-> <<>>, scene |-> "none", ops |-> <<>>]

\* No call of preprocess_image is being followed: its parameter image, the
\* call that is going to raise, its locals (scanner.py:96-108), what it
\* returned and whether an exception left it.
NoEnhancement ==
    [pc |-> "idle", image |-> NoImage, fault |-> "none", gray |-> NoImage,
     denoised |-> NoImage, enhanced |-> NoImage, binary |-> NoImage,
     result |-> NoImage, raised |-> FALSE]

\* The local variables of one perform_scan thread.
NoLocals ==
    [i |-> 0, ret |-> <<None, None>>, image_path |-> None, text |-> None,
     ocr_error |-> None, exc |-> None]

VARIABLES
    scan_in_progress,   \* app.py:34
    last_scan_result,   \* app.py:28
    scan_lock,          \* app.py:35: 0 when free, else the request holding it
    scanner_globals,    \* the names bound in the scanner module
    clock,              \* the wall clock: each reading by the program is later
    files,              \* the image files that exist in the temp directory
    camera_held,        \* the requests whose thread holds an opened device
    world,              \* what the devices do during the job being run
    pc,                 \* pc[r]: where request r's handler scan_document is
    response,           \* response[r]: what POST /scan returned to request r
    trigger_time,       \* trigger_time[r]: when request r was sent
    tpc,                \* tpc[r]: where the thread started by request r is
    locals,             \* locals[r]: that thread's local variables
    job_result,         \* job_result[r]: the results that thread assigned
    ocr_calls,          \* ocr_calls[r]: its calls of ocr_processor.ocr_image
    capture_calls,      \* capture_calls[r]: its calls of
                        \* scanner.capture_and_process_image
    last_read,          \* <<what the latest GET /last_result returned>>
    status_call,        \* where the handler of GET /status is, and its device
    last_status,        \* <<the answer to the latest GET /status>>
    status_during,      \* whether that answer's read of scan_in_progress
                        \* fell inside a trigger's check-and-set
    enh                 \* a call of scanner.preprocess_image on its own

vars ==
    <<scan_in_progress, last_scan_result, scan_lock, scanner_globals, clock,
      files, camera_held, world, pc, response, trigger_time, tpc, locals,
      job_result, ocr_calls, capture_calls, last_read, status_call,
      last_status, status_during, enh>>

\* What the steps of POST /scan and of the pipeline never touch.
observers == <<last_read, status_call, last_status, status_during, enh>>

shared == <<scan_in_progress, last_scan_result, scan_lock>>

handler == <<pc, response, trigger_time>>

thread ==
    <<tpc, locals, job_result, ocr_calls, capture_calls, files, camera_held,
      world>>

Start0 ==
    /\ scan_in_progress = FALSE
    /\ last_scan_result = InitialResult
    /\ scan_lock = 0
    /\ clock = 0
    /\ files = {}
    /\ camera_held = {}
    /\ world = Benign
    /\ pc = [r \in Requests |-> "new"]
    /\ response = [r \in Requests |-> NoResponse]
    /\ trigger_time = [r \in Requests |-> 0]
    /\ tpc = [r \in Requests |-> "none"]
    /\ locals = [r \in Requests |-> NoLocals]
    /\ job_result = [r \in Requests |-> <<>>]
    /\ ocr_calls = [r \in Requests |-> 0]
    /\ capture_calls = [r \in Requests |-> 0]
    /\ last_read = <<>>
    /\ status_call = NoStatusCall
    /\ last_status = <<>>
    /\ status_during = FALSE
    /\ enh = NoEnhancement

\* The program as written: scanner.py never imports time.
Init == Start0 /\ scanner_globals = ScannerImports

----------------------------------------------------------------------------
\* POST /scan: app.py scan_document, lines 66-76 and 138-142

\* Request r is sent. Requests are numbered in the order they are sent.
Arrive(r) ==
    /\ pc[r] = "new"
    /\ \A q \in Requests : q < r => pc[q] # "new"
    /\ trigger_time' = [trigger_time EXCEPT ![r] = clock]
    /\ pc' = [pc EXCEPT ![r] = "acquire"]
    /\ UNCHANGED <<shared, scanner_globals, clock, response, thread,
                   observers>>

\* AcquireLock without the mutual exclusion: the request goes on to the check
\* although another request holds the lock.
AcquireLock_NoWait(r) ==
    /\ pc[r] = "acquire"
    /\ scan_lock' = r
    /\ pc' = [pc EXCEPT ![r] = "check"]
    /\ UNCHANGED <<scan_in_progress, last_scan_result, scanner_globals, clock,
                   response, trigger_time, thread, observers>>

\* app.py:71, `with scan_lock:` entered: blocks while another request holds it.
AcquireLock(r) ==
    /\ pc[r] = "acquire"
    /\ scan_lock = 0
    /\ scan_lock' = r
    /\ pc' = [pc EXCEPT ![r] = "check"]
    /\ UNCHANGED <<scan_in_progress, last_scan_result, scanner_globals, clock,
                   response, trigger_time, thread, observers>>

\* app.py:72, `if scan_in_progress:`
CheckInProgress(r) ==
    /\ pc[r] = "check"
    /\ pc' = [pc EXCEPT ![r] = IF scan_in_progress THEN "reject" ELSE "set"]
    /\ UNCHANGED <<shared, scanner_globals, clock, response, trigger_time,
                   thread, observers>>

\* RejectScan as it would be with scan_lock.acquire() in place of the with
\* block: the return at app.py:73 leaves the lock held.
RejectScan_KeepsLock(r) ==
    /\ pc[r] = "reject"
    /\ response' = [response EXCEPT ![r] = Rejected]
    /\ pc' = [pc EXCEPT ![r] = "done"]
    /\ UNCHANGED <<shared, scanner_globals, clock, trigger_time, thread,
                   observers>>

\* app.py:73: the return leaves the with block, which releases the lock.
RejectScan(r) ==
    /\ pc[r] = "reject"
    /\ scan_lock' = 0
    /\ response' = [response EXCEPT ![r] = Rejected]
    /\ pc' = [pc EXCEPT ![r] = "done"]
    /\ UNCHANGED <<scan_in_progress, last_scan_result, scanner_globals, clock,
                   trigger_time, thread, observers>>

\* app.py:75, `scan_in_progress = True`
SetInProgress(r) ==
    /\ pc[r] = "set"
    /\ scan_in_progress' = TRUE
    /\ pc' = [pc EXCEPT ![r] = "unlock"]
    /\ UNCHANGED <<last_scan_result, scan_lock, scanner_globals, clock,
                   response, trigger_time, thread, observers>>

\* ReleaseLock as it would be with app.py:77-142 indented under the with
\* block of app.py:71: the handler goes on to start the thread with the lock
\* held.
ReleaseLock_Late(r) ==
    /\ pc[r] = "unlock"
    /\ pc' = [pc EXCEPT ![r] = "start"]
    /\ UNCHANGED <<shared, scanner_globals, clock, response, trigger_time,
                   thread, observers>>

\* app.py:75-76: the end of the with block releases the lock.
ReleaseLock(r) ==
    /\ pc[r] = "unlock"
    /\ scan_lock' = 0
    /\ pc' = [pc EXCEPT ![r] = "start"]
    /\ UNCHANGED <<scan_in_progress, last_scan_result, scanner_globals, clock,
                   response, trigger_time, thread, observers>>

\* app.py:139-142: the thread is started and the handler answers. The devices
\* the new job will meet are chosen here.
StartThread(r) ==
    /\ pc[r] = "start"
    /\ \E w \in Worlds : world' = w
    /\ tpc' = [tpc EXCEPT ![r] = "open"]
    /\ locals' = [locals EXCEPT ![r] = NoLocals]
    /\ response' = [response EXCEPT ![r] = Accepted]
    /\ pc' = [pc EXCEPT ![r] = "done"]
    /\ UNCHANGED <<shared, scanner_globals, clock, trigger_time, job_result,
                   ocr_calls, capture_calls, files, camera_held, observers>>

\* app.py:140: Thread.start() raises RuntimeError ("can't start new thread");
\* nothing in scan_document catches it, so no thread runs and line 142 is not
\* reached.
StartThreadFails(r) ==
    /\ pc[r] = "start"
    /\ response' = [response EXCEPT ![r] = ServerError]
    /\ pc' = [pc EXCEPT ![r] = "done"]
    /\ UNCHANGED <<shared, scanner_globals, clock, trigger_time, thread,
                   observers>>

\* GET /last_result: app.py:144-147
GetLastResult ==
    /\ last_read' = <<last_scan_result>>
    /\ UNCHANGED <<shared, scanner_globals, clock, handler, thread,
                   status_call, last_status, status_during, enh>>

----------------------------------------------------------------------------
\* GET /status: app.py status (59-64), get_camera_status (37-52) and
\* scanner.check_camera_available (scanner.py:12-29). One such request is
\* served at a time; the client polls again after each answer, and
\* last_status holds the answer to its latest request once that has come.

\* What the steps of GET /status never touch.
scanning == <<shared, scanner_globals, clock, handler, thread, last_read, enh>>

\* scanner.py:14-18: cv2.VideoCapture(camera_index) raises (the except
\* returns False with cap still None), or gives a capture that is not opened
\* (return False), or gives one that is.
CheckCameraOpen ==
    /\ status_call.pc = "idle"
    /\ \E outcome \in {"raises", "closed", "open"} :
         status_call' =
            CASE outcome = "raises" ->
                   [status_call EXCEPT !.pc = "reply", !.available = FALSE]
              [] outcome = "closed" ->
                   [status_call EXCEPT !.pc = "release", !.cap = "closed",
                                       !.available = FALSE]
              [] outcome = "open" ->
                   [status_call EXCEPT !.pc = "read", !.cap = "open"]
    /\ last_status' = <<>>
    /\ status_during' = FALSE
    /\ UNCHANGED scanning

\* scanner.py:21-22 and 24-26: one frame is read; a read that raises is
\* answered False like a read that delivers nothing.
CheckCameraRead ==
    /\ status_call.pc = "read"
    /\ \E ok \in BOOLEAN :
         status_call' = [status_call EXCEPT !.pc = "release", !.available = ok]
    /\ UNCHANGED <<scanning, last_status, status_during>>

\* scanner.py:27-29: the finally releases the capture.
CheckCameraRelease ==
    /\ status_call.pc = "release"
    /\ status_call' = [status_call EXCEPT !.pc = "reply", !.cap = "released"]
    /\ UNCHANGED <<scanning, last_status, status_during>>

\* scanner.py:29 raises: the exception leaves check_camera_available and is
\* caught at app.py:46.
CheckCameraReleaseRaises ==
    /\ status_call.pc = "release"
    /\ status_call' = [status_call EXCEPT !.pc = "reply", !.raised = TRUE]
    /\ UNCHANGED <<scanning, last_status, status_during>>

\* app.py:41-52
CameraStatus(call) ==
    IF call.raised
    THEN [camera_online |-> FALSE, resolution |-> None, status |-> "error"]
    ELSE [camera_online |-> call.available,
          resolution |-> IF call.available THEN CAMERA_RESOLUTION ELSE None,
          status |-> IF call.available THEN "online" ELSE "offline"]

\* The answer of GET /status given the camera status and the flag read.
StatusAnswer(call, flag) ==
    [camera_online |-> CameraStatus(call).camera_online,
     resolution |-> CameraStatus(call).resolution,
     status |-> CameraStatus(call).status,
     scan_in_progress |-> flag]

\* A trigger holds scan_lock and has not yet left its check-and-set
\* (app.py:71-75): it is at the check, or past it and before the set.
InCheckAndSet == scan_lock # 0 /\ pc[scan_lock] \in {"check", "set"}

\* StatusReply as it would be with the read of app.py:63 under
\* `with scan_lock:`: it waits while a trigger holds the lock.
StatusReply_UnderLock ==
    /\ status_call.pc = "reply"
    /\ scan_lock = 0
    /\ last_status' = <<StatusAnswer(status_call, scan_in_progress)>>
    /\ status_during' = InCheckAndSet
    /\ status_call' = NoStatusCall
    /\ UNCHANGED scanning

\* app.py:62-64: scan_in_progress is read, with scan_lock neither taken nor
\* looked at, and the answer is sent.
StatusReply ==
    /\ status_call.pc = "reply"
    /\ last_status' = <<StatusAnswer(status_call, scan_in_progress)>>
    /\ status_during' = InCheckAndSet
    /\ status_call' = NoStatusCall
    /\ UNCHANGED scanning

----------------------------------------------------------------------------
\* scanner.capture_and_process_image, scanner.py:31-86, run by the thread of
\* request r (called at app.py:83)

SetLocal(r, field, v) == [locals EXCEPT ![r] = [@ EXCEPT ![field] = v]]

\* scanner.py:44
CouldNotOpen == Str(<<"Could not open camera ", ToString(CAMERA_INDEX)>>)

\* scanner.py:56
FailedInitialFrames == Str(<<"Failed to capture initial frames">>)

\* scanner.py:62
FailedImageFrame == Str(<<"Failed to capture image frame">>)

\* scanner.py:76
FailedToSave == Str(<<"Failed to save processed image">>)

\* scanner.py:82, f"Capture error: {str(e)}"
CaptureError(e) == Str(<<"Capture error: ">> \o e[2])

\* str(e) of the NameError that scanner.py:57 raises.
TimeNotDefined == Str(<<"name 'time' is not defined">>)

\* str(e) of the cv2.error a failing cap.release() raises.
ReleaseError == Str(<<"cv2.error">>)

\* scanner.py:70-72: the file is named after the time of saving.
ImagePath(t) == Str(<<"/tmp/document_scan_", ToString(t), ".jpg">>)

\* scanner.py:41-44
CapOpen(r) ==
    /\ tpc[r] = "open"
    /\ capture_calls' = [capture_calls EXCEPT ![r] = @ + 1]
    /\ IF world.opened
       THEN /\ camera_held' = camera_held \cup {r}
            /\ tpc' = [tpc EXCEPT ![r] = "warm_up"]
            /\ locals' = SetLocal(r, "i", 0)
       ELSE /\ camera_held' = camera_held
            /\ tpc' = [tpc EXCEPT ![r] = "cap_finally"]
            /\ locals' = SetLocal(r, "ret", <<None, CouldNotOpen>>)
    /\ UNCHANGED <<shared, scanner_globals, clock, handler, job_result,
                   ocr_calls, files, world, observers>>

\* scanner.py:54-56: read number i+1 of the warm-up loop returns without a
\* frame. A read that never returns leaves the thread inside cap.read():
\* nothing in the function watches its timeout parameter (scanner.py:31).
WarmReadFails(r) ==
    /\ tpc[r] = "warm_up"
    /\ ~(locals[r].i < world.reads)
    /\ ~world.stalls
    /\ locals' = SetLocal(r, "ret", <<None, FailedInitialFrames>>)
    /\ tpc' = [tpc EXCEPT ![r] = "cap_finally"]
    /\ UNCHANGED <<shared, scanner_globals, clock, handler, job_result,
                   ocr_calls, capture_calls, files, camera_held, world,
                   observers>>

\* scanner.py:53-57: one round of the warm-up loop when the module binds the
\* name time: a frame is read, time.sleep(0.1) returns, and after
\* WarmupFrames rounds the loop ends.
WarmRound(r) ==
    /\ tpc[r] = "warm_up"
    /\ locals[r].i < world.reads
    /\ "time" \in scanner_globals
    /\ locals' = SetLocal(r, "i", locals[r].i + 1)
    /\ tpc' = [tpc EXCEPT ![r] =
                 IF locals[r].i + 1 < WarmupFrames THEN "warm_up"
                                                   ELSE "final_read"]
    /\ UNCHANGED <<shared, scanner_globals, clock, handler, job_result,
                   ocr_calls, capture_calls, files, camera_held, world,
                   observers>>

\* scanner.py:54-57 when the module does not bind time: a frame is read and
\* time.sleep raises NameError, caught at scanner.py:81-82.
WarmRoundNameError(r) ==
    /\ tpc[r] = "warm_up"
    /\ locals[r].i < world.reads
    /\ "time" \notin scanner_globals
    /\ locals' = SetLocal(r, "ret", <<None, CaptureError(TimeNotDefined)>>)
    /\ tpc' = [tpc EXCEPT ![r] = "cap_finally"]
    /\ UNCHANGED <<shared, scanner_globals, clock, handler, job_result,
                   ocr_calls, capture_calls, files, camera_held, world,
                   observers>>

\* scanner.py:60-62; as in the warm-up loop, a read that never returns
\* leaves the thread inside cap.read().
FinalRead(r) ==
    /\ tpc[r] = "final_read"
    /\ WarmupFrames < world.reads \/ ~world.stalls
    /\ IF WarmupFrames < world.reads
       THEN /\ tpc' = [tpc EXCEPT ![r] = "save"]
            /\ locals' = locals
       ELSE /\ tpc' = [tpc EXCEPT ![r] = "cap_finally"]
            /\ locals' = SetLocal(r, "ret", <<None, FailedImageFrame>>)
    /\ UNCHANGED <<shared, scanner_globals, clock, handler, job_result,
                   ocr_calls, capture_calls, files, camera_held, world,
                   observers>>

\* scanner.py:67-79: the frame is preprocessed and written to a file named
\* after the current time.
SaveImage(r) ==
    /\ tpc[r] = "save"
    /\ clock' = clock + 1
    /\ IF world.saved
       THEN /\ files' = files \cup {ImagePath(clock + 1)}
            /\ locals' = SetLocal(r, "ret", <<ImagePath(clock + 1), None>>)
       ELSE /\ files' = files
            /\ locals' = SetLocal(r, "ret", <<None, FailedToSave>>)
    /\ tpc' = [tpc EXCEPT ![r] = "cap_finally"]
    /\ UNCHANGED <<shared, scanner_globals, handler, job_result, ocr_calls,
                   capture_calls, camera_held, world, observers>>

\* CapRelease as it would be with cap.release() as the last statement of the
\* try block instead of in the finally: only the path that saved the image
\* releases the device.
CapRelease_NotInFinally(r) ==
    /\ tpc[r] = "cap_finally"
    /\ world.releases
    /\ camera_held' = IF locals[r].ret[2] = None
                      THEN camera_held \ {r}
                      ELSE camera_held
    /\ tpc' = [tpc EXCEPT ![r] = "returned"]
    /\ UNCHANGED <<shared, scanner_globals, clock, handler, locals, job_result,
                   ocr_calls, capture_calls, files, world, observers>>

\* scanner.py:83-86 and app.py:83: the device is released and the call
\* returns (image_path, capture_error).
CapRelease(r) ==
    /\ tpc[r] = "cap_finally"
    /\ world.releases
    /\ camera_held' = camera_held \ {r}
    /\ tpc' = [tpc EXCEPT ![r] = "returned"]
    /\ UNCHANGED <<shared, scanner_globals, clock, handler, locals, job_result,
                   ocr_calls, capture_calls, files, world, observers>>

\* scanner.py:85 raises: the exception leaves capture_and_process_image in
\* place of its return value and reaches app.py:128.
CapReleaseRaises(r) ==
    /\ tpc[r] = "cap_finally"
    /\ ~world.releases
    /\ locals' = SetLocal(r, "exc", ReleaseError)
    /\ tpc' = [tpc EXCEPT ![r] = "except"]
    /\ UNCHANGED <<shared, scanner_globals, clock, handler, job_result,
                   ocr_calls, capture_calls, files, camera_held, world,
                   observers>>

----------------------------------------------------------------------------
\* scanner.preprocess_image, scanner.py:88-114, followed statement by
\* statement on its own. SaveImage above calls it at scanner.py:67 and takes
\* from it only that it returns an image.

\* What a camera may show.
Scenes == {"page", "blank", "dark"}

\* The frames cap.read() delivers: colour frames are arrays of shape
\* (height, width, 3), single-channel frames arrays of shape (height, width).
Frames ==
    { [shape |-> sh, scene |-> sc, ops |-> <<>>] :
        sh \in { <<CAMERA_RESOLUTION[2], CAMERA_RESOLUTION[1], 3>>,
                 <<CAMERA_RESOLUTION[2], CAMERA_RESOLUTION[1]>> },
        sc \in Scenes }

\* The OpenCV call of preprocess_image that raises, if one does.
FaultPoints == {"none", "cvtColor", "GaussianBlur", "CLAHE", "threshold"}

\* An OpenCV operation that keeps the shape of the array.
Applied(op, img) == [img EXCEPT !.ops = Append(@, op)]

\* cv2.cvtColor(image, cv2.COLOR_BGR2GRAY): the three channels become one.
CvtColor(img) ==
    [img EXCEPT !.shape = <<img.shape[1], img.shape[2]>>,
                !.ops = Append(@, "cvtColor")]

\* What the steps of preprocess_image followed on its own never touch.
serving ==
    <<shared, scanner_globals, clock, handler, thread, last_read, status_call,
      last_status, status_during>>

\* scanner.py:88: preprocess_image is called with a frame.
PreprocessCall ==
    /\ enh.pc \in {"idle", "returned"}
    /\ \E image \in Frames, fault \in FaultPoints :
         enh' = [NoEnhancement EXCEPT !.pc = "gray", !.image = image,
                                      !.fault = fault]
    /\ UNCHANGED serving

\* scanner.py:95-98
Grayscale ==
    /\ enh.pc = "gray"
    /\ IF Len(enh.image.shape) = 3
       THEN IF enh.fault = "cvtColor"
            THEN enh' = [enh EXCEPT !.pc = "except"]
            ELSE enh' = [enh EXCEPT !.pc = "blur",
                                    !.gray = CvtColor(enh.image)]
       ELSE enh' = [enh EXCEPT !.pc = "blur", !.gray = enh.image]
    /\ UNCHANGED serving

\* scanner.py:101
Denoise ==
    /\ enh.pc = "blur"
    /\ IF enh.fault = "GaussianBlur"
       THEN enh' = [enh EXCEPT !.pc = "except"]
       ELSE enh' = [enh EXCEPT !.pc = "clahe",
                               !.denoised = Applied("GaussianBlur", enh.gray)]
    /\ UNCHANGED serving

\* scanner.py:104-105
Enhance ==
    /\ enh.pc = "clahe"
    /\ IF enh.fault = "CLAHE"
       THEN enh' = [enh EXCEPT !.pc = "except"]
       ELSE enh' = [enh EXCEPT !.pc = "threshold",
                               !.enhanced = Applied("CLAHE", enh.denoised)]
    /\ UNCHANGED serving

\* scanner.py:108
Threshold ==
    /\ enh.pc = "threshold"
    /\ IF enh.fault = "threshold"
       THEN enh' = [enh EXCEPT !.pc = "except"]
       ELSE enh' = [enh EXCEPT !.pc = "return",
                               !.binary = Applied("threshold", enh.enhanced)]
    /\ UNCHANGED serving

\* scanner.py:110, `return binary`
PreprocessReturn ==
    /\ enh.pc = "return"
    /\ enh' = [enh EXCEPT !.pc = "returned", !.result = enh.binary]
    /\ UNCHANGED serving

\* PreprocessExcept as it would be with `raise` in place of `return image`.
PreprocessExcept_Reraise ==
    /\ enh.pc = "except"
    /\ enh' = [enh EXCEPT !.pc = "returned", !.raised = TRUE]
    /\ UNCHANGED serving

\* scanner.py:112-114, `return image`
PreprocessExcept ==
    /\ enh.pc = "except"
    /\ enh' = [enh EXCEPT !.pc = "returned", !.result = enh.image]
    /\ UNCHANGED serving

----------------------------------------------------------------------------
\* ocr_processor.ocr_image, ocr_processor.py:10-46

\* ocr_processor.py:19
ImageFileNotFound == Str(<<"Image file not found">>)

\* ocr_processor.py:44
TesseractNotInstalled ==
    Str(<<"Tesseract OCR not installed. Please run: sudo apt install tesseract-ocr">>)

NoException == [type |-> "none", msg |-> None]

\* What lines 25-32 raise: Image.open on a file that is no image, or
\* pytesseract.image_to_string without or with a failing tesseract binary.
RaisedInside(w) ==
    IF ~w.readable
    THEN [type |-> "UnidentifiedImageError",
          msg |-> Str(<<"cannot identify image file">>)]
    ELSE IF w.engine = "missing"
    THEN [type |-> "TesseractNotFoundError",
          msg |-> Str(<<"tesseract is not installed or it's not in your PATH">>)]
    ELSE IF w.engine = "error"
    THEN [type |-> "TesseractError", msg |-> Str(<<"tesseract failed">>)]
    ELSE NoException

\* ocr_processor.py:40, `except Exception as e:` of the inner try, which
\* encloses the call of pytesseract: every exception raised there is an
\* Exception, TesseractNotFoundError included.
CaughtInside(e) == e.type # "none"

\* ocr_processor.py:41
ImageProcessingError(e) == Str(<<"Image processing error: ">> \o e.msg[2])

\* ocr_processor.py:43-46: the handlers of the outer try, for an exception
\* the inner try lets through.
OuterHandler(e) ==
    IF e.type = "TesseractNotFoundError"
    THEN TesseractNotInstalled
    ELSE Str(<<"OCR processing error: ">> \o e.msg[2])

\* ocr_image(image_path, lang, config): the pair (extracted_text, error).
OcrImage(image_path, fs, w) ==
    IF image_path \notin fs
    THEN <<None, ImageFileNotFound>>
    ELSE LET e == RaisedInside(w) IN
         IF e.type = "none" THEN <<Str(Strip(w.raw)), None>>
         ELSE IF CaughtInside(e) THEN <<None, ImageProcessingError(e)>>
         ELSE <<None, OuterHandler(e)>>

----------------------------------------------------------------------------
\* perform_scan, app.py:77-136, after the capture has returned

\* CaptureFailedResult with the message of the other failure branch.
CaptureFailedResult_OcrTag(capture_error, t) ==
    [text |-> Str(<<>>), timestamp |-> Float(t), success |-> FALSE,
     error |-> Str(<<"OCR failed: ">> \o capture_error[2])]

\* app.py:90-95
CaptureFailedResult(capture_error, t) ==
    [text |-> Str(<<>>), timestamp |-> Float(t), success |-> FALSE,
     error |-> Str(<<"Capture failed: ">> \o capture_error[2])]

\* OcrFailedResult with the "success" entry of the other branch of
\* app.py:112.
OcrFailedResult_Success(ocr_error, t) ==
    [text |-> Str(<<>>), timestamp |-> Float(t), success |-> TRUE,
     error |-> Str(<<"OCR failed: ">> \o ocr_error[2])]

\* app.py:113-118
OcrFailedResult(ocr_error, t) ==
    [text |-> Str(<<>>), timestamp |-> Float(t), success |-> FALSE,
     error |-> Str(<<"OCR failed: ">> \o ocr_error[2])]

\* SuccessResult without the `or "No text detected"`.
SuccessResult_NoPlaceholder(text, t) ==
    [text |-> text, timestamp |-> Float(t), success |-> TRUE, error |-> None]

\* app.py:120-125, with `text or "No text detected"`
SuccessResult(text, t) ==
    [text |-> IF Truthy(text) THEN text ELSE NoTextDetected,
     timestamp |-> Float(t), success |-> TRUE, error |-> None]

\* app.py:129-134
UnexpectedResult(exc, t) ==
    [text |-> Str(<<>>), timestamp |-> Float(t), success |-> FALSE,
     error |-> Str(<<"Unexpected error: ">> \o exc[2])]

\* Publish without the `global last_scan_result` declaration: the assignment
\* binds a local name and the module's result stays what it was.
Publish_Local(r, result) ==
    /\ last_scan_result' = last_scan_result
    /\ job_result' = [job_result EXCEPT ![r] = Append(@, result)]
    /\ clock' = clock + 1

\* Publish that updates the existing dict key by key and is seen before the
\* timestamp is stored.
Publish_InPlace(r, result) ==
    /\ last_scan_result' =
         [result EXCEPT !.timestamp = last_scan_result.timestamp]
    /\ job_result' = [job_result EXCEPT ![r] = Append(@, result)]
    /\ clock' = clock + 1

\* `last_scan_result = {...}`: the dict is built, then the global is bound to
\* it in one store.
Publish(r, result) ==
    /\ last_scan_result' = result
    /\ job_result' = [job_result EXCEPT ![r] = Append(@, result)]
    /\ clock' = clock + 1

\* CaptureFailed without the `return` of app.py:96: the thread goes on to
\* call ocr_image with the image_path None.
CaptureFailed_NoReturn(r) ==
    /\ tpc[r] = "returned"
    /\ Truthy(locals[r].ret[2])
    /\ Publish(r, CaptureFailedResult(locals[r].ret[2], clock + 1))
    /\ LET got == OcrImage(locals[r].ret[1], files, world) IN
       locals' = [locals EXCEPT ![r] =
                    [@ EXCEPT !.image_path = locals[r].ret[1],
                              !.text = got[1], !.ocr_error = got[2]]]
    /\ ocr_calls' = [ocr_calls EXCEPT ![r] = @ + 1]
    /\ tpc' = [tpc EXCEPT ![r] = "cleanup"]
    /\ UNCHANGED <<scan_in_progress, scan_lock, scanner_globals, handler,
                   files, camera_held, world, observers, capture_calls>>

\* app.py:89-96: the capture reported an error; the return goes to finally.
CaptureFailed(r) ==
    /\ tpc[r] = "returned"
    /\ Truthy(locals[r].ret[2])
    /\ Publish(r, CaptureFailedResult(locals[r].ret[2], clock + 1))
    /\ tpc' = [tpc EXCEPT ![r] = "finally"]
    /\ UNCHANGED <<scan_in_progress, scan_lock, scanner_globals, handler,
                   locals, ocr_calls, capture_calls, files, camera_held, world,
                   observers>>

\* app.py:89 not taken, then app.py:99-103: ocr_image is called on the file.
RunOcr(r) ==
    /\ tpc[r] = "returned"
    /\ ~Truthy(locals[r].ret[2])
    /\ LET got == OcrImage(locals[r].ret[1], files, world) IN
       locals' = [locals EXCEPT ![r] =
                    [@ EXCEPT !.image_path = locals[r].ret[1],
                              !.text = got[1], !.ocr_error = got[2]]]
    /\ ocr_calls' = [ocr_calls EXCEPT ![r] = @ + 1]
    /\ tpc' = [tpc EXCEPT ![r] = "cleanup"]
    /\ UNCHANGED <<shared, scanner_globals, clock, handler, job_result, files,
                   camera_held, world, observers, capture_calls>>

\* app.py:106-110: the file is removed if it exists; a failing os.remove is
\* swallowed by the bare except.
CleanUp(r) ==
    /\ tpc[r] = "cleanup"
    /\ files' = IF locals[r].image_path \in files /\ world.removable
                THEN files \ {locals[r].image_path}
                ELSE files
    /\ tpc' = [tpc EXCEPT ![r] = "publish"]
    /\ UNCHANGED <<shared, scanner_globals, clock, handler, locals, job_result,
                   ocr_calls, capture_calls, camera_held, world, observers>>

\* app.py:112-118
OcrFailed(r) ==
    /\ tpc[r] = "publish"
    /\ Truthy(locals[r].ocr_error)
    /\ Publish(r, OcrFailedResult(locals[r].ocr_error, clock + 1))
    /\ tpc' = [tpc EXCEPT ![r] = "finally"]
    /\ UNCHANGED <<scan_in_progress, scan_lock, scanner_globals, handler,
                   locals, ocr_calls, capture_calls, files, camera_held, world,
                   observers>>

\* app.py:119-126
ScanSucceeded(r) ==
    /\ tpc[r] = "publish"
    /\ ~Truthy(locals[r].ocr_error)
    /\ Publish(r, SuccessResult(locals[r].text, clock + 1))
    /\ tpc' = [tpc EXCEPT ![r] = "finally"]
    /\ UNCHANGED <<scan_in_progress, scan_lock, scanner_globals, handler,
                   locals, ocr_calls, capture_calls, files, camera_held, world,
                   observers>>

\* app.py:128-134: an exception reached perform_scan's handler.
UnexpectedError(r) ==
    /\ tpc[r] = "except"
    /\ Publish(r, UnexpectedResult(locals[r].exc, clock + 1))
    /\ tpc' = [tpc EXCEPT ![r] = "finally"]
    /\ UNCHANGED <<scan_in_progress, scan_lock, scanner_globals, handler,
                   locals, ocr_calls, capture_calls, files, camera_held, world,
                   observers>>

\* app.py:135-136: the flag is cleared and the thread ends; its locals are
\* gone, and what the devices did during the job no longer matters.
ClearInProgress(r) ==
    /\ tpc[r] = "finally"
    /\ scan_in_progress' = FALSE
    /\ tpc' = [tpc EXCEPT ![r] = "done"]
    /\ locals' = [locals EXCEPT ![r] = NoLocals]
    /\ world' = Benign
    /\ UNCHANGED <<last_scan_result, scan_lock, scanner_globals, clock,
                   handler, job_result, ocr_calls, capture_calls, files,
                   camera_held, observers>>

----------------------------------------------------------------------------
\* The steps of scan_document and of the part of the pipeline that runs
\* whatever the scanner module binds.
Shared ==
    \E r \in Requests :
        \/ Arrive(r)
        \/ AcquireLock(r)
        \/ CheckInProgress(r)
        \/ RejectScan(r)
        \/ SetInProgress(r)
        \/ ReleaseLock(r)
        \/ StartThread(r)
        \/ StartThreadFails(r)
        \/ CapOpen(r)
        \/ WarmReadFails(r)
        \/ CapRelease(r)
        \/ CapReleaseRaises(r)
        \/ CaptureFailed(r)
        \/ UnexpectedError(r)
        \/ ClearInProgress(r)

\* The program as written, with a client that polls /last_result.
\* scanner.py:57 raises NameError in the first round of the warm-up loop, so
\* the steps after it (WarmRound, FinalRead, SaveImage, RunOcr, CleanUp,
\* OcrFailed, ScanSucceeded) are never enabled and are left out of Next.
Next ==
    \/ Shared
    \/ \E r \in Requests : WarmRoundNameError(r)
    \/ GetLastResult

Spec == Init /\ [][Next]_vars

\* The program with `import time` added to scanner.py, which is what the
\* steps after the warm-up loop need in order to run at all.
InitImportTime == Start0 /\ scanner_globals = ScannerImports \cup {"time"}

NextImportTime ==
    \/ Shared
    \/ \E r \in Requests :
         \/ WarmRound(r)
         \/ FinalRead(r)
         \/ SaveImage(r)
         \/ RunOcr(r)
         \/ CleanUp(r)
         \/ OcrFailed(r)
         \/ ScanSucceeded(r)

SpecImportTime == InitImportTime /\ [][NextImportTime]_vars

\* The steps of GET /status.
StatusNext ==
    \/ CheckCameraOpen
    \/ CheckCameraRead
    \/ CheckCameraRelease
    \/ CheckCameraReleaseRaises
    \/ StatusReply

\* The program as written, with a client that polls /status.
NextStatus ==
    \/ Shared
    \/ \E r \in Requests : WarmRoundNameError(r)
    \/ StatusNext

SpecStatus == Init /\ [][NextStatus]_vars

\* The program with `import time` added to scanner.py, with a client that
\* polls /status.
NextCamera ==
    \/ NextImportTime
    \/ StatusNext

SpecCamera == InitImportTime /\ [][NextCamera]_vars

\* Calls of preprocess_image on every frame, with every call of OpenCV in
\* it raising in turn.
NextEnhance ==
    \/ PreprocessCall
    \/ Grayscale
    \/ Denoise
    \/ Enhance
    \/ Threshold
    \/ PreprocessReturn
    \/ PreprocessExcept

SpecEnhance == Init /\ [][NextEnhance]_vars

----------------
\* Properties

\* The thread started by request r exists and has not ended.
Running(r) == tpc[r] \notin {"none", "done"}

\* Request r set scan_in_progress and its job has not ended.
InFlight(r) == pc[r] \in {"unlock", "start"} \/ Running(r)

\* Request r was admitted: it found the flag false and set it.
Admitted(r) ==
    \/ pc[r] \in {"unlock", "start"}
    \/ pc[r] = "done" /\ response[r] # Rejected

\* The job of request r has assigned last_scan_result.
Published(r) == job_result[r] # <<>>

\* The result it assigned last.
JobResult(r) == job_result[r][Len(job_result[r])]

\* The leading literal of a result's error message, "" when it has none.
ErrorTag(result) == IF result.error = None THEN "" ELSE result.error[2][1]

\* C1: at most one perform_scan pipeline runs at any instant; a rejected
\* trigger answers 429 "Scan already in progress" and starts no thread; and
\* whenever a trigger has been rejected another trigger was admitted, so of
\* two racing triggers exactly one is admitted.
C1_SingleFlight ==
    /\ Cardinality({r \in Requests : InFlight(r)}) <= 1
    /\ \A r \in Requests :
         /\ pc[r] = "reject" => tpc[r] = "none"
         /\ response[r] = Rejected =>
              /\ tpc[r] = "none"
              /\ \E q \in Requests \ {r} : Admitted(q)
         /\ Running(r) => response[r] = Accepted

\* C1 witness: one trigger was rejected while the pipeline of another runs.
C1_Witness ==
    \E r, q \in Requests :
        /\ response[r] = Rejected
        /\ response[q] = Accepted
        /\ Running(q)
        /\ scan_in_progress

\* C2: once every handler and every thread has ended, each admitted trigger
\* has had scan_in_progress cleared again and a result of its job published,
\* whichever path was taken, the failure to start the thread included.
C2_EveryJobEnds ==
    (\A r \in Requests : pc[r] = "done" /\ ~Running(r)) =>
        /\ ~scan_in_progress
        /\ \A r \in Requests : Admitted(r) => Published(r)

\* The result of the finished job that published last.
IsNewestFinished(r) ==
    /\ tpc[r] = "done"
    /\ \A q \in Requests :
         tpc[q] = "done" =>
             /\ Published(q) /\ Published(r)
             /\ JobResult(q).timestamp[2] <= JobResult(r).timestamp[2]

\* C3: when a pipeline completes, scan_in_progress is false and
\* last_scan_result is the result that pipeline assigned (written before the
\* flag was cleared); and whenever the flag is false after a completion,
\* last_scan_result is the result of the newest completed job, never of an
\* earlier one.
C3_ResultOfCompletedJob ==
    /\ [][\A r \in Requests :
            (tpc[r] # "done" /\ tpc'[r] = "done") =>
                /\ ~scan_in_progress'
                /\ Published(r)
                /\ last_scan_result = JobResult(r)
                /\ last_scan_result' = JobResult(r)]_vars
    /\ [](\A r \in Requests :
            (~scan_in_progress /\ IsNewestFinished(r)) =>
                last_scan_result = JobResult(r))

\* C3 witness: two jobs have completed, the flag is false and the result is
\* that of the later job, which differs from the earlier one's.
C3_Witness ==
    \E r, q \in Requests :
        /\ r # q
        /\ tpc[q] = "done"
        /\ IsNewestFinished(r)
        /\ ~scan_in_progress
        /\ last_scan_result = JobResult(r)
        /\ JobResult(q) # JobResult(r)

\* The devices work throughout the job and the document carries a text.
EverythingWorks(w) ==
    /\ w.opened /\ w.reads = AllReads /\ w.saved /\ w.releases
    /\ w.readable /\ w.engine = "ok" /\ w.removable
    /\ Strip(w.raw) # <<>>

\* C4: when the camera opens, every read delivers a frame, the image is saved
\* and recognition returns a non-empty text, the job publishes that text
\* trimmed, with success true, no error and a timestamp later than the
\* trigger.
C4_SuccessPublished ==
    \A r \in Requests :
        (tpc[r] = "finally" /\ EverythingWorks(world)) =>
            /\ last_scan_result.success = TRUE
            /\ last_scan_result.text = Str(Strip(world.raw))
            /\ last_scan_result.error = None
            /\ last_scan_result.timestamp[2] > trigger_time[r]

\* C5: a job whose capture reported an error never calls ocr_image: from the
\* return of capture_and_process_image it only publishes the capture failure
\* and clears the flag.
C5_NoOcrAfterCaptureError ==
    \A r \in Requests :
        /\ (Truthy(locals[r].ret[2]) /\ locals[r].exc = None) =>
              /\ ocr_calls[r] = 0
              /\ tpc[r] \in {"cap_finally", "returned", "finally"}
              /\ tpc[r] = "finally" =>
                   /\ last_scan_result = JobResult(r)
                   /\ last_scan_result.success = FALSE
                   /\ ErrorTag(last_scan_result) = "Capture failed: "
        /\ (Published(r) /\ ErrorTag(JobResult(r)) = "Capture failed: ")
              => ocr_calls[r] = 0

\* C5 witness: a job has published its capture failure and has not called
\* ocr_image, after an earlier job did call it.
C5_Witness ==
    \E r, q \in Requests :
        /\ tpc[r] = "finally"
        /\ Truthy(locals[r].ret[2])
        /\ ErrorTag(last_scan_result) = "Capture failed: "
        /\ ocr_calls[r] = 0
        /\ ocr_calls[q] = 1

C7_EmptyTextPlaceholder ==
    \A r \in Requests :
        (/\ tpc[r] = "finally"
         /\ ocr_calls[r] = 1
         /\ locals[r].ocr_error = None
         /\ locals[r].text = Str(<<>>)) =>
            /\ last_scan_result.text = NoTextDetected
            /\ last_scan_result.success = TRUE
            /\ last_scan_result.error = None

\* C7 witness: the engine returned only white space, ocr_image stripped it to
\* the empty text and the job has published.
C7_Witness ==
    \E r \in Requests :
        /\ tpc[r] = "finally"
        /\ ocr_calls[r] = 1
        /\ world.raw = <<" ", "\n">>
        /\ locals[r].ocr_error = None
        /\ locals[r].text = Str(<<>>)
        /\ last_scan_result.text = NoTextDetected

\* C8: when the capture succeeded and the engine is not installed, the
\* published result has success false, the text "" and an error that carries
\* the engine-unavailable report of ocr_image, not the "Image processing
\* error: ..." report it gives for a failure on the given image.
C8_EngineMissingDistinct ==
    \A r \in Requests :
        (/\ tpc[r] = "finally"
         /\ ocr_calls[r] = 1
         /\ world.readable
         /\ world.engine = "missing") =>
            /\ last_scan_result.success = FALSE
            /\ last_scan_result.text = Str(<<>>)
            /\ last_scan_result.error # None
            /\ last_scan_result.error[2][1] = "OCR failed: "
            /\ last_scan_result.error[2][2] # "Image processing error: "

\* The job of request r has published and its capture returned an error.
CaptureStageFailed(r) ==
    tpc[r] = "finally" /\ locals[r].exc = None /\ Truthy(locals[r].ret[2])

\* The job of request r has published and ocr_image returned an error.
RecognitionStageFailed(r) ==
    tpc[r] = "finally" /\ Truthy(locals[r].ocr_error)

\* C9 as stated: a capture failure is published with success false and the
\* error "capture failed: <detail>", a recognition failure with success false
\* and the error "recognition failed: <detail>".
C9_StageTags ==
    \A r \in Requests :
        /\ CaptureStageFailed(r) =>
              /\ last_scan_result.success = FALSE
              /\ last_scan_result.error =
                   Str(<<"capture failed: ">> \o locals[r].ret[2][2])
        /\ RecognitionStageFailed(r) =>
              /\ last_scan_result.success = FALSE
              /\ last_scan_result.error =
                   Str(<<"recognition failed: ">> \o locals[r].ocr_error[2])

\* C9 amended: a capture failure that capture_and_process_image returns is
\* published with success false and the error "Capture failed: <detail>", a
\* recognition failure that ocr_image returns with success false and the
\* error "OCR failed: <detail>".
C9_StageTagsAsWritten ==
    \A r \in Requests :
        /\ CaptureStageFailed(r) =>
              /\ last_scan_result.success = FALSE
              /\ last_scan_result.error =
                   Str(<<"Capture failed: ">> \o locals[r].ret[2][2])
        /\ RecognitionStageFailed(r) =>
              /\ last_scan_result.success = FALSE
              /\ last_scan_result.error =
                   Str(<<"OCR failed: ">> \o locals[r].ocr_error[2])

\* C9 witness: one job has published a recognition failure after another job
\* published a capture failure.
C9_Witness ==
    \E r, q \in Requests :
        /\ RecognitionStageFailed(r)
        /\ ErrorTag(last_scan_result) = "OCR failed: "
        /\ tpc[q] = "done"
        /\ ErrorTag(JobResult(q)) = "Capture failed: "

\* C10: what GET /last_result returns is always one whole result: the initial
\* value or the result some job assigned, never fields of two results.
C10_WholeResultRead ==
    last_read # <<>> =>
        \/ last_read[1] = InitialResult
        \/ \E r \in Requests :
             \E k \in 1..Len(job_result[r]) : last_read[1] = job_result[r][k]

\* C10 witness: while a job is in progress and has not published, a read has
\* returned the whole result of the previous job.
C10_Witness ==
    \E r, q \in Requests :
        /\ Running(q)
        /\ ~Published(q)
        /\ tpc[r] = "done"
        /\ last_read = <<JobResult(r)>>
        /\ last_read[1] = last_scan_result

----------------------------------------------------------------------------
\* The steps of request r's handler inside `with scan_lock:` (app.py:71-75)
\* that end in the early return of app.py:73.
RejectedStep(r) ==
    \/ pc[r] = "check" /\ pc'[r] = "reject"
    \/ pc[r] = "reject" /\ pc'[r] = "done"

\* C11: a trigger that finds a scan in progress changes nothing: the steps of
\* its check and of its early return leave scan_in_progress, last_scan_result
\* and every thread's position, locals, results, files and device untouched,
\* the return answers 429, and it releases the lock the trigger held.
C11_RejectedTriggerIsNoOp ==
    [][\A r \in Requests :
          RejectedStep(r) =>
              /\ scan_in_progress' = scan_in_progress
              /\ last_scan_result' = last_scan_result
              /\ UNCHANGED thread
              /\ scan_lock = r
              /\ pc'[r] = "done" =>
                     scan_lock' = 0 /\ response'[r] = Rejected]_vars

\* C11 witness: a trigger has been rejected and the lock is free again while
\* the job that made it be rejected is still at work on the camera.
C11_Witness ==
    \E r, q \in Requests :
        /\ response[r] = Rejected
        /\ pc[r] = "done"
        /\ scan_lock = 0
        /\ tpc[q] = "warm_up"
        /\ scan_in_progress

\* The positions of scan_document inside `with scan_lock:`, app.py:71-75.
InCriticalSection == {"check", "reject", "set", "unlock"}

\* A step of the thread started by request r.
ThreadStep(r) ==
    tpc[r] # "none" /\ <<tpc[r], locals[r]>>' # <<tpc[r], locals[r]>>

PipelineNext(r) ==
    \/ CapOpen(r) \/ WarmReadFails(r) \/ WarmRound(r) \/ WarmRoundNameError(r)
    \/ FinalRead(r) \/ SaveImage(r) \/ CapRelease(r) \/ CapReleaseRaises(r)
    \/ CaptureFailed(r) \/ RunOcr(r) \/ CleanUp(r) \/ OcrFailed(r)
    \/ ScanSucceeded(r) \/ UnexpectedError(r) \/ ClearInProgress(r)

\* C13: the capture step cannot wait on the camera for ever: a thread that
\* is inside capture_and_process_image always has a next step (when a read
\* does not return, the step that gives up after the timeout), so that it
\* goes on to publish a result and clear scan_in_progress.
C13_CaptureBounded ==
    \A r \in Requests :
        tpc[r] \in {"warm_up", "final_read"} => ENABLED PipelineNext(r)

\* C14: the read of scan_in_progress by GET /status is made holding
\* scan_lock, so it never falls at an instant when a trigger is inside its
\* check-and-set (holds the lock).
C14_StatusReadUnderLock ==
    last_status # <<>> => ~status_during

\* C14 as the code has it: the read of scan_in_progress by GET /status takes
\* no lock. It never waits (the read is enabled whoever holds scan_lock), it
\* leaves scan_lock as it was, and what it reports is the value the flag has
\* at that instant.
C14_StatusReadLockFree ==
    /\ [](status_call.pc = "reply" => ENABLED StatusReply)
    /\ [][status_call.pc = "reply" /\ status_call'.pc = "idle" =>
            /\ last_status'[1].scan_in_progress = scan_in_progress
            /\ scan_lock' = scan_lock]_vars

\* C14 witness: a status answer reported scan_in_progress false from a read
\* that fell inside the check-and-set of a trigger which has now set the
\* flag and still holds the lock.
C14_Witness ==
    /\ last_status # <<>>
    /\ status_during
    /\ ~last_status[1].scan_in_progress
    /\ scan_in_progress
    /\ \E r \in Requests : pc[r] = "unlock"

\* capture_and_process_image, called by the thread of request r, has returned
\* to perform_scan (app.py:83-87): a return, not an exception out of its
\* finally.
CaptureReturned(r) ==
    \/ tpc[r] \in {"returned", "cleanup", "publish"}
    \/ /\ tpc[r] \in {"finally", "done"}
       /\ Published(r)
       /\ ErrorTag(JobResult(r)) # "Unexpected error: "

FaultMet ==
    /\ enh.fault # "none"
    /\ enh.fault = "cvtColor" => Len(enh.image.shape) = 3

\* C16: every call of preprocess_image returns and returns an image, no
\* exception leaves it; when one of its OpenCV calls raised, what it returns
\* is its input, unchanged; and for an input that already has one channel
\* cv2.cvtColor is not called: with nothing else raising, the result is the
\* input blurred, contrast-enhanced and thresholded, in its own shape.
C16_PreprocessNeverFails ==
    enh.pc = "returned" =>
        /\ ~enh.raised
        /\ enh.result # NoImage
        /\ enh.result.scene = enh.image.scene
        /\ FaultMet => enh.result = enh.image
        /\ Len(enh.image.shape) = 2 /\ ~FaultMet =>
               /\ enh.result.ops = <<"GaussianBlur", "CLAHE", "threshold">>
               /\ enh.result.shape = enh.image.shape

\* C16 witness: on a single-channel frame, with the last OpenCV call
\* raising after the others had done their work, the call returned its
\* input.
C16_Witness ==
    /\ enh.pc = "returned"
    /\ Len(enh.image.shape) = 2
    /\ enh.fault = "threshold"
    /\ enh.enhanced # NoImage
    /\ enh.result = enh.image

\* C17: each admitted trigger causes exactly one call of
\* capture_and_process_image and at most one call of ocr_image: no request
\* ever has more than one of either, a trigger that was not admitted has
\* none, once the handler of an admitted trigger has answered its one
\* capture has been called or is the thread's next step, and a job that has
\* ended stays at one capture and at most one recognition.
C17_NoRetry ==
    \A r \in Requests :
        /\ capture_calls[r] <= 1
        /\ ocr_calls[r] <= capture_calls[r]
        /\ ~Admitted(r) => capture_calls[r] = 0
        /\ pc[r] = "done" /\ Admitted(r) =>
               capture_calls[r] = 1 \/ tpc[r] = "open"
        /\ tpc[r] = "done" => capture_calls[r] = 1

\* The calls are bounded from above: no request ever has
\* more than one call of capture_and_process_image or of ocr_image, none
\* without being admitted, and none is made by a thread that has ended.
NoSecondCall ==
    /\ [](\A r \in Requests :
            /\ capture_calls[r] <= 1
            /\ ocr_calls[r] <= capture_calls[r]
            /\ ~Admitted(r) => capture_calls[r] = 0)
    /\ [][\A r \in Requests :
            tpc[r] = "done" =>
                /\ capture_calls'[r] = capture_calls[r]
                /\ ocr_calls'[r] = ocr_calls[r]]_vars

\* A Python str that is not "".
NonEmpty(str) ==
    /\ str # None
    /\ str[1] = "str"
    /\ \E k \in 1..Len(str[2]) : str[2][k] # ""

\* C18: last_scan_result always has one of three forms: the initial value
\* (timestamp None, text "", success False, error None); a success (success
\* True, error None, text not empty); or a failure (success False, text "",
\* error a non-empty string). The timestamp is None in the initial value
\* only.
C18_ResultWellFormed ==
    \/ last_scan_result = InitialResult
    \/ /\ last_scan_result.timestamp # None
       /\ last_scan_result.success
       /\ last_scan_result.error = None
       /\ NonEmpty(last_scan_result.text)
    \/ /\ last_scan_result.timestamp # None
       /\ ~last_scan_result.success
       /\ last_scan_result.text = Str(<<>>)
       /\ NonEmpty(last_scan_result.error)

\* C18 witness: the value is a success with recognized text, and it replaced
\* a failure that replaced the initial value.
C18_Witness ==
    \E r, q \in Requests :
        /\ Published(r)
        /\ Published(q)
        /\ ~JobResult(q).success
        /\ JobResult(q).timestamp[2] < JobResult(r).timestamp[2]
        /\ last_scan_result = JobResult(r)
        /\ last_scan_result.success
        /\ last_scan_result.text # NoTextDetected

\* last_scan_result changes only in a step of a running thread, taken while
\* scan_in_progress is true, and no job assigns it twice.
WrittenOnlyByPipeline ==
    /\ [][last_scan_result' # last_scan_result =>
            /\ scan_in_progress
            /\ \E r \in Requests : Running(r) /\ ThreadStep(r)]_vars
    /\ [](\A r \in Requests : Len(job_result[r]) <= 1)

\* C19: last_scan_result is assigned only by the jobs, once each: no job
\* assigns it twice, a trigger that was not admitted has no assignment, a
\* job that has ended has made one, and once the handler of an admitted
\* trigger has answered, its job has made its one assignment or is still
\* running towards it.
C19_OneWritePerJob ==
    \A r \in Requests :
        /\ Len(job_result[r]) <= 1
        /\ ~Admitted(r) => job_result[r] = <<>>
        /\ tpc[r] = "done" => Len(job_result[r]) = 1
        /\ pc[r] = "done" /\ Admitted(r) =>
               Len(job_result[r]) = 1 \/ Running(r)

====
